---- MODULE Spec2Model ----
(***************************************************************************)
(* Notification-card widget of the sdc_shoelace theme: the native engine   *)
(* (notification_card.js: initializeAll, initializeCard, dismissCard,      *)
(* animateIn, getVariant, logNotification, NotificationCard.init/show) and *)
(* the Drupal adapter (shoelace-init.js: Drupal.behaviors.notificationCard,*)
(* Drupal.notificationCard and Drupal.behaviors.convertDrupalMessages).    *)
(*                                                                         *)
(* The document is a set of card elements (identified by small integers),  *)
(* the lazily created notification container with its ordered children,    *)
(* the browser's timer queue and clock, localStorage, and the registry of  *)
(* Drupal's once().  Every handler is one atomic action (the UI thread is  *)
(* single-threaded and handlers run to completion).                        *)
(***************************************************************************)
EXTENDS Integers, Sequences, FiniteSets, TLC

(* ------------------------------ bounds --------------------------------- *)

\* Number of card elements that can ever exist (markup + show-created) in the
\* page-level specification SpecPage.
MaxCards == 2

\* User dismiss triggers (click, Escape) are offered on a card only while it
\* has emitted fewer than this many notificationDismiss events.
MaxDismiss == 1

\* The whole-system specification Spec follows the life of one element.
OneCard == {1}

\* Number of status-message blocks the host can render.
MaxBlocks == 2

(* ------------------------- program constants --------------------------- *)

AutoDismissDelay == 5000
ExitDelay == 300
AnimateDelay == 50
LogCap == 50
MessageDuration == 5000

(* ------------------------------ text ----------------------------------- *)
\* Text and markup are sequences of tokens: a word, or one of the characters
\* that HTML treats specially.  In markup a "<" token opens an element and a
\* "</" token closes one; in text they are just characters.

\* escapeHtml that returns its argument as it is.
escapeHtmlIdentity(text) == text

EscapeToken(t) ==
  CASE t = "<" -> "&lt;"
    [] t = "</" -> "&lt;/"
    [] t = ">" -> "&gt;"
    [] t = "&" -> "&amp;"
    [] OTHER -> t

\* escapeHtml: div.textContent = text; return div.innerHTML
escapeHtml(text) == [i \in 1..Len(text) |-> EscapeToken(text[i])]

DecodeToken(t) ==
  CASE t = "&lt;" -> "<"
    [] t = "&lt;/" -> "</"
    [] t = "&gt;" -> ">"
    [] t = "&amp;" -> "&"
    [] OTHER -> t

\* textContent of a node whose markup holds no element: entities decoded.
TextOfMarkup(m) == [i \in 1..Len(m) |-> DecodeToken(m[i])]

\* Number of elements the HTML parser creates from a markup fragment.
ElementsOfMarkup(m) == Cardinality({i \in 1..Len(m) : m[i] = "<"})

DefaultTitle == <<"Notification">>

(* ------------------------------ state ---------------------------------- *)

VARIABLES
  cards,       \* [Ids -> element record]; origin "none" = not created yet
  children,    \* child list of the notification container, in order
  containers,  \* number of .notification-container elements in the document
  timers,      \* pending setTimeout callbacks, in registration order, each
               \* with the time left until it is due, in ms
  events,      \* per card: the events dispatched on document for it
  logs,        \* localStorage 'notificationLogs' (parsed)
  storageOk,   \* FALSE: localStorage access throws (storage blocked or full)
  engine,      \* window.NotificationCard is defined
  readyState,  \* document.readyState: "loading" or "complete"
  domListener, \* the engine's DOMContentLoaded listener is registered
  onceDone,    \* elements once() has marked for the key 'notification-card'
  adapterLog,  \* per attach call that reached the engine: its context and the
               \* elements it passed to NotificationCard.init, in order
  lastShow,    \* outcome of the latest show call, and the namespace called
  blocks,      \* the host's status-message blocks (.messages elements)
  modules      \* the Shoelace module scripts of the page: which arrangement
               \* loads them, the modules fetched, and what has run, in order

vars == <<cards, children, containers, timers, events, logs, storageOk,
          engine, readyState, domListener, onceDone, adapterLog, lastShow,
          blocks, modules>>

NoCard ==
  [origin |-> "none", parent |-> "none", classes |-> {}, hasDismiss |-> FALSE,
   hasTitle |-> FALSE, title |-> <<>>, message |-> <<>>, icon |-> "",
   autoDismiss |-> "unset", initialized |-> FALSE, wired |-> 0,
   clickListeners |-> 0, hoverListeners |-> 0, keyListeners |-> 0,
   tabindex |-> "", opacity |-> "", transform |-> "", transition |-> "",
   options |-> [x \in {} |-> TRUE], exitClock |-> 0, userTriggers |-> 0,
   titleElements |-> 0, messageElements |-> 0, escapePressed |-> FALSE]

Ids == DOMAIN cards

\* A .messages block: its messages--{type} classes, the text of its
\* .messages__title when it has one, the innerHTML of its content sub-element
\* when it has one and of the block itself, its style.display, and the mark of
\* once('convert-messages').  shown: the elements show created for it.
NoBlock ==
  [present |-> FALSE, types |-> {}, hasTitle |-> FALSE, title |-> <<>>,
   hasContent |-> FALSE, contentHTML |-> <<>>, blockHTML |-> <<>>,
   display |-> "", once |-> FALSE, shown |-> <<>>]

BlockIds == DOMAIN blocks

Exists(c) == cards[c].origin # "none"
Attached(cs, c) == cs[c].parent # "none"

(* ------------------------------ engine --------------------------------- *)
\* The handlers below are functions on a "world": the part of the state the
\* engine's code reads and writes.  threw = TRUE: an exception is propagating
\* and the rest of the calling handler is skipped.

World ==
  [cards |-> cards, children |-> children, timers |-> timers,
   events |-> events, logs |-> logs, threw |-> FALSE, called |-> <<>>]

\* The value of an optional chain on a missing node.
Undefined == <<"#undefined">>

\* card.querySelector('.notification-title')?.textContent
TitleText(card) == IF card.hasTitle THEN card.title ELSE Undefined

\* A class name of the form notification-card--NAME is held as NAME.  Names
\* that are longer than a variant's name and contain it, cut where the
\* variant's name begins and ends.
Pieces(name) ==
  CASE name = "successful" -> <<"success", "ful">>
    [] name = "danger-zone" -> <<"danger", "-zone">>
    [] name = "non-warning" -> <<"non-", "warning">>
    [] OTHER -> <<name>>

\* classes.includes('notification-card--' + v): a substring test on the whole
\* className, so it finds v at the start of a longer name too.
includes(classes, v) == \E name \in classes : Pieces(name)[1] = v

\* getVariant without its test for the danger class.
getVariantNoDanger(card) ==
  IF includes(card.classes, "success") THEN "success"
  ELSE IF includes(card.classes, "warning") THEN "warning"
  ELSE "info"

\* getVariant(card): first match in the order success, warning, danger.
getVariant(card) ==
  IF includes(card.classes, "success") THEN "success"
  ELSE IF includes(card.classes, "warning") THEN "warning"
  ELSE IF includes(card.classes, "danger") THEN "danger"
  ELSE "info"

\* A slice that keeps the first n entries.
LastNKeepsFirst(s, n) == IF Len(s) <= n THEN s ELSE SubSeq(s, 1, n)

\* logs.slice(-50)
LastN(s, n) == IF Len(s) <= n THEN s ELSE SubSeq(s, Len(s) - n + 1, Len(s))

\* logNotification(card): read, append, write back the last 50 entries.  (The
\* entry's timestamp is a reading of the wall clock and is left out.)
logNotification(w, c) ==
  IF ~storageOk THEN [w EXCEPT !.threw = TRUE]
  ELSE [w EXCEPT !.logs =
          LastN(Append(w.logs, [variant |-> getVariant(w.cards[c]),
                                title |-> TitleText(w.cards[c])]), LogCap)]

ExitTransition == "all 0.3s ease-out"
EnterTransition == "all 0.4s cubic-bezier(0.4, 0, 0.2, 1)"
OffScreen == "translateX(100%)"

\* animateIn(card): hide now, show after 50 ms.
animateIn(w, c) ==
  [w EXCEPT !.cards[c].opacity = "0",
            !.cards[c].transform = OffScreen,
            !.timers = Append(@, [kind |-> "animate", card |-> c,
                                  left |-> AnimateDelay])]

\* The success auto-dismiss without its test of data-auto-dismiss.
ScheduleAutoDismissNoOptOut(w, c) ==
  IF getVariant(w.cards[c]) = "success"
  THEN [w EXCEPT !.timers = Append(@, [kind |-> "auto", card |-> c,
                                       left |-> AutoDismissDelay])]
  ELSE w

\* The auto-dismiss scheduled whatever the variant.
ScheduleAutoDismissAnyVariant(w, c) ==
  IF w.cards[c].autoDismiss # "false"
  THEN [w EXCEPT !.timers = Append(@, [kind |-> "auto", card |-> c,
                                       left |-> AutoDismissDelay])]
  ELSE w

\* The success auto-dismiss of initializeCard (lines 54-60).
ScheduleAutoDismiss(w, c) ==
  IF getVariant(w.cards[c]) = "success" /\ w.cards[c].autoDismiss # "false"
  THEN [w EXCEPT !.timers = Append(@, [kind |-> "auto", card |-> c,
                                       left |-> AutoDismissDelay])]
  ELSE w

\* The listeners initializeCard adds: click on the dismiss control when there
\* is one, mouseenter/mouseleave, keydown (which tests the dismiss control when
\* a key arrives); and tabindex.
AddListeners(w, c) ==
  [w EXCEPT !.cards[c].clickListeners = IF w.cards[c].hasDismiss THEN @ + 1 ELSE @,
            !.cards[c].hoverListeners = @ + 1,
            !.cards[c].keyListeners = @ + 1,
            !.cards[c].tabindex = "0",
            !.cards[c].wired = @ + 1]

\* initializeCard(card)
initializeCard(w, c) ==
  logNotification(AddListeners(animateIn(ScheduleAutoDismiss(w, c), c), c), c)

\* dismissCard with the exit style applied before the event is dispatched.
dismissCardStyleFirst(w, c) ==
  LET ev == [type |-> "notificationDismiss",
             variant |-> getVariant(w.cards[c]),
             title |-> TitleText(w.cards[c]),
             attached |-> Attached(w.cards, c),
             transition |-> ExitTransition,
             elapsed |-> IF w.events[c] = <<>> THEN 0 ELSE w.cards[c].exitClock]
  IN [w EXCEPT !.events[c] = Append(@, ev),
               !.cards[c].transition = ExitTransition,
               !.cards[c].opacity = "0",
               !.cards[c].transform = OffScreen,
               !.timers = Append(@, [kind |-> "remove", card |-> c,
                                     left |-> ExitDelay])]

\* dismissCard(card): event first, then the exit style, then the removal timer.
dismissCard(w, c) ==
  LET ev == [type |-> "notificationDismiss",
             variant |-> getVariant(w.cards[c]),
             title |-> TitleText(w.cards[c]),
             attached |-> Attached(w.cards, c),
             transition |-> w.cards[c].transition,
             elapsed |-> IF w.events[c] = <<>> THEN 0 ELSE w.cards[c].exitClock]
  IN [w EXCEPT !.events[c] = Append(@, ev),
               !.cards[c].transition = ExitTransition,
               !.cards[c].opacity = "0",
               !.cards[c].transform = OffScreen,
               !.timers = Append(@, [kind |-> "remove", card |-> c,
                                     left |-> ExitDelay])]

\* Every listener of one kind runs once per event: n calls of dismissCard.
RECURSIVE dismissTimes(_, _, _)
dismissTimes(w, c, n) ==
  IF n = 0 THEN w ELSE dismissTimes(dismissCard(w, c), c, n - 1)

RemoveFromSeq(s, c) == SelectSeq(s, LAMBDA x : x # c)

\* A removal callback that empties the element's container.
removeCallbackEmptiesContainer(w, c) ==
  LET w1 == [w EXCEPT !.cards[c].parent = "none",
                      !.children = <<>>]
      ev == [type |-> "notificationRemoved",
             variant |-> getVariant(w1.cards[c]),
             title |-> Undefined,
             attached |-> Attached(w1.cards, c),
             transition |-> w1.cards[c].transition,
             elapsed |-> w1.cards[c].exitClock]
  IN [w1 EXCEPT !.events[c] = Append(@, ev)]

\* The callback dismissCard schedules: card.remove(), then the event.
removeCallback(w, c) ==
  LET w1 == [w EXCEPT !.cards[c].parent = "none",
                      !.children = RemoveFromSeq(@, c)]
      ev == [type |-> "notificationRemoved",
             variant |-> getVariant(w1.cards[c]),
             title |-> Undefined,
             attached |-> Attached(w1.cards, c),
             transition |-> w1.cards[c].transition,
             elapsed |-> w1.cards[c].exitClock]
  IN [w1 EXCEPT !.events[c] = Append(@, ev)]

\* The callback animateIn schedules.
animateCallback(w, c) ==
  [w EXCEPT !.cards[c].transition = EnterTransition,
            !.cards[c].opacity = "1",
            !.cards[c].transform = "translateX(0)"]

\* document.querySelectorAll('.notification-card') in document order: the
\* cards of the page markup, then the children of the container (the
\* container is appended to the end of body).
SetToSeq(S) ==
  LET RECURSIVE build(_, _)
      build(i, acc) == IF i > Cardinality(Ids) THEN acc
                       ELSE build(i + 1, IF i \in S THEN Append(acc, i) ELSE acc)
  IN build(1, <<>>)

DocumentCards(w) ==
  SetToSeq({c \in Ids : w.cards[c].parent = "page"}) \o w.children

\* A mount that does not look at data-notification-initialized.
initOnceNoMarker(w, c) ==
  initializeCard([w EXCEPT !.cards[c].initialized = TRUE], c)

\* The body of the forEach of initializeAll, and of init(element).
initOnce(w, c) ==
  IF w.cards[c].initialized THEN w
  ELSE initializeCard([w EXCEPT !.cards[c].initialized = TRUE], c)

\* forEach over a list; an exception ends the loop.
RECURSIVE forEachInit(_, _)
forEachInit(w, list) ==
  IF list = <<>> \/ w.threw THEN w
  ELSE forEachInit(initOnce(w, Head(list)), Tail(list))

initializeAll(w) == forEachInit(w, DocumentCards(w))

(* --------------------------- show: options ------------------------------ *)

ScriptTitle == <<"<", "script", ">", "x", "</", "script", ">">>
BoldMessage == <<"<", "b", ">", "ok", "</", "b", ">">>

\* An options object is a record holding the fields the caller gave.
Empty == [x \in {} |-> TRUE]

\* The options objects the callers of show pass in the whole-system model.
ShowOptions ==
  {Empty,
   [variant |-> "success", duration |-> 0],
   [variant |-> "success", duration |-> 6000],
   [variant |-> "info", duration |-> 3000],
   [variant |-> "danger", duration |-> 30],
   [variant |-> "warning", title |-> ScriptTitle, message |-> BoldMessage,
    dismissible |-> FALSE]}

Has(options, f) == f \in DOMAIN options

\* Property names every object literal inherits from Object.prototype, and
\* the text the template makes of the function found under each.
InheritedNames == {"constructor", "toString"}
InheritedText(name) ==
  IF name = "constructor" THEN "function Object() { [native code] }"
  ELSE "function toString() { [native code] }"

\* getDefaultIcon(variant): icons[variant] || icons.info.  The lookup in the
\* icons literal also finds inherited properties, which are truthy.
getDefaultIcon(variant) ==
  CASE variant = "info" -> "info-circle"
    [] variant = "success" -> "check-circle"
    [] variant = "warning" -> "exclamation-triangle"
    [] variant = "danger" -> "exclamation-octagon"
    [] variant \in InheritedNames -> InheritedText(variant)
    [] OTHER -> "info-circle"

\* Object.assign({}, defaults, options)
Config(options) ==
  [variant |-> IF Has(options, "variant") THEN options.variant ELSE "info",
   title |-> IF Has(options, "title") THEN options.title ELSE DefaultTitle,
   message |-> IF Has(options, "message") THEN options.message ELSE <<>>,
   dismissible |-> IF Has(options, "dismissible") THEN options.dismissible ELSE TRUE,
   duration |-> IF Has(options, "duration") THEN options.duration ELSE 0,
   icon |-> IF Has(options, "icon") THEN options.icon
            ELSE getDefaultIcon(IF Has(options, "variant") THEN options.variant
                                ELSE "undefined")]

\* The element the template of show produces for a config.
NewCard(options) ==
  LET config == Config(options)
  IN [NoCard EXCEPT !.origin = "show",
                    !.classes = {config.variant},
                    !.hasTitle = TRUE,
                    !.title = TextOfMarkup(escapeHtml(config.title)),
                    !.titleElements = ElementsOfMarkup(escapeHtml(config.title)),
                    !.message = config.message,
                    !.messageElements = ElementsOfMarkup(config.message),
                    !.icon = config.icon,
                    !.hasDismiss = config.dismissible,
                    !.options = options]

\* The duration timer of show (lines 248-253).
ScheduleDuration(w, c, config) ==
  IF config.duration > 0
  THEN [w EXCEPT !.timers = Append(@, [kind |-> "duration", card |-> c,
                                       left |-> config.duration])]
  ELSE w

FreeIds == {c \in Ids : cards[c].origin = "none"}
NextId == CHOOSE c \in FreeIds : \A d \in FreeIds : c <= d

\* The container lookup of show that creates a container on every call.
ensureContainerAlways(n) == n + 1

\* show, lines 205-221: the container is created when the document has none.
ensureContainer(n) == IF n = 0 THEN 1 ELSE n

\* show with the new element inserted before the container's first child.
showBodyPrepends(w, c, options) ==
  LET w1 == [w EXCEPT !.cards[c] = NewCard(options),
                      !.children = <<c>> \o @]
      w2 == initializeCard([w1 EXCEPT !.cards[c].parent = "container"], c)
  IN IF w2.threw THEN w2 ELSE ScheduleDuration(w2, c, Config(options))

\* NotificationCard.show(options), from the merge of the defaults to the
\* return; an exception of initializeCard leaves before the duration timer.
showBody(w, c, options) ==
  LET w1 == [w EXCEPT !.cards[c] = NewCard(options),
                      !.children = Append(@, c)]
      w2 == initializeCard([w1 EXCEPT !.cards[c].parent = "container"], c)
  IN IF w2.threw THEN w2 ELSE ScheduleDuration(w2, c, Config(options))

(* ------------------------------ markup ---------------------------------- *)

\* The shapes of the notification cards the templates (or hand-written
\* markup) put in the page: variant classes, optional descendants, opt-out.
Shape(cl, d, t, a) ==
  [NoCard EXCEPT !.origin = "markup", !.parent = "page", !.classes = cl,
                 !.hasDismiss = d, !.hasTitle = t,
                 !.title = IF t THEN <<"Hello">> ELSE <<>>,
                 !.autoDismiss = a]

MarkupShapes ==
  {Shape({"success"}, TRUE, TRUE, "unset"),
   Shape({"success"}, TRUE, TRUE, "false"),
   Shape({"warning", "danger"}, TRUE, FALSE, "unset"),
   Shape({}, FALSE, TRUE, "unset")}

(* ------------------------------ actions --------------------------------- *)

NoShow == [status |-> "none", card |-> 0, via |-> "none"]

\* A page that loads no Shoelace module script.
NoModules == [arrangement |-> "none", fetched |-> {}, ran |-> <<>>]

InitWith(ids) ==
  /\ cards = [c \in ids |-> NoCard]
  /\ children = <<>>
  /\ containers = 0
  /\ timers = <<>>
  /\ events = [c \in ids |-> <<>>]
  /\ logs = <<>>
  /\ storageOk = TRUE
  /\ engine = FALSE
  /\ readyState = "loading"
  /\ domListener = FALSE
  /\ onceDone = {}
  /\ adapterLog = <<>>
  /\ blocks = [b \in 1..MaxBlocks |-> NoBlock]
  /\ modules = NoModules
  /\ lastShow = NoShow

Init == InitWith(OneCard)

\* Write a world back to the state.
Commit(w) ==
  /\ cards' = w.cards
  /\ children' = w.children
  /\ timers' = w.timers
  /\ events' = w.events
  /\ logs' = w.logs

\* The environment: localStorage stops working (quota reached, access denied).
StorageFails ==
  /\ storageOk
  /\ storageOk' = FALSE
  /\ UNCHANGED <<cards, children, containers, timers, events, logs,
                 engine, readyState, domListener, onceDone, adapterLog, lastShow, blocks, modules>>

\* The parser, or a later content insertion, adds a card to the page.
InsertMarkup(shape) ==
  /\ FreeIds # {}
  /\ cards' = [cards EXCEPT ![NextId] = shape]
  /\ UNCHANGED <<children, containers, timers, events, logs, storageOk,
                 engine, readyState, domListener, onceDone, adapterLog, lastShow, blocks, modules>>

\* The engine's script runs: window.NotificationCard is set, then autoInit().
LoadEngine ==
  /\ ~engine
  /\ engine' = TRUE
  /\ IF readyState = "loading"
     THEN /\ domListener' = TRUE
          /\ UNCHANGED <<cards, children, timers, events, logs>>
     ELSE /\ Commit(initializeAll(World))
          /\ UNCHANGED domListener
  /\ UNCHANGED <<containers, storageOk, readyState, onceDone, adapterLog,
                 lastShow, blocks, modules>>

\* DOMContentLoaded: the listener autoInit registered runs initializeAll.
DOMContentLoaded ==
  /\ readyState = "loading"
  /\ readyState' = "complete"
  /\ IF domListener
     THEN Commit(initializeAll(World))
     ELSE UNCHANGED <<cards, children, timers, events, logs>>
  /\ UNCHANGED <<containers, storageOk, engine, domListener, onceDone,
                 adapterLog, lastShow, blocks, modules>>

\* NotificationCard.init(element)
InitElement(c) ==
  /\ engine
  /\ Exists(c)
  /\ Commit(initOnce(World, c))
  /\ UNCHANGED <<containers, storageOk, engine, readyState, domListener,
                 onceDone, adapterLog, lastShow, blocks, modules>>

\* NotificationCard.init()
InitAll ==
  /\ engine
  /\ Commit(initializeAll(World))
  /\ UNCHANGED <<containers, storageOk, engine, readyState, domListener,
                 onceDone, adapterLog, lastShow, blocks, modules>>

\* NotificationCard.show(options)
Show(options) ==
  /\ engine
  /\ FreeIds # {}
  /\ LET w == showBody(World, NextId, options)
     IN /\ Commit(w)
        /\ lastShow' = [status |-> IF w.threw THEN "threw" ELSE "returned",
                        card |-> NextId, via |-> "NotificationCard"]
  /\ containers' = ensureContainer(containers)
  /\ UNCHANGED <<storageOk, engine, readyState, domListener, onceDone,
                 adapterLog, blocks, modules>>

(* ------------------------------ adapter --------------------------------- *)

\* A scan of the context that does not consult the marks of once().
onceFreshNoMarks(w, scope) ==
  SelectSeq(DocumentCards(w), LAMBDA c : c \in scope)

\* once('notification-card', '.notification-card', context): the matching
\* elements of the context not yet marked, in document order; all are marked.
onceFresh(w, scope) ==
  SelectSeq(DocumentCards(w), LAMBDA c : c \in scope /\ c \notin onceDone)

SeqToSet(s) == {s[i] : i \in 1..Len(s)}

\* The forEach of Drupal.behaviors.notificationCard.attach.
RECURSIVE attachEach(_, _)
attachEach(w, list) ==
  IF list = <<>> \/ w.threw THEN w
  ELSE IF engine
       THEN attachEach(initOnce([w EXCEPT !.called = Append(@, Head(list))],
                                Head(list)), Tail(list))
       ELSE attachEach(w, Tail(list))

\* Drupal.behaviors.notificationCard.attach(context)
Attach(scope) ==
  /\ scope # {}
  /\ LET fresh == onceFresh(World, scope)
         w == attachEach(World, fresh)
     IN /\ onceDone' = onceDone \cup SeqToSet(fresh)
        /\ Commit(w)
        /\ adapterLog' = IF w.called = <<>> THEN adapterLog
                          ELSE Append(adapterLog, [scope |-> scope,
                                                   called |-> w.called])
  /\ UNCHANGED <<containers, storageOk, engine, readyState, domListener,
                 lastShow, blocks, modules>>

\* Drupal.notificationCard.show that calls the engine's show and drops what
\* it returns.
DrupalShowNoReturn(options) ==
  /\ FreeIds # {}
  /\ IF engine
     THEN LET w == showBody(World, NextId, options)
          IN /\ Commit(w)
             /\ lastShow' = [status |-> IF w.threw THEN "threw" ELSE "returned",
                             card |-> 0, via |-> "Drupal"]
             /\ containers' = ensureContainer(containers)
     ELSE UNCHANGED <<cards, children, timers, events, logs, lastShow, containers>>
  /\ UNCHANGED <<storageOk, engine, readyState, domListener, onceDone,
                 adapterLog, blocks, modules>>

\* Drupal.notificationCard.show(options): the engine's show when the engine
\* is defined, nothing otherwise.
DrupalShow(options) ==
  /\ FreeIds # {}
  /\ IF engine
     THEN LET w == showBody(World, NextId, options)
          IN /\ Commit(w)
             /\ lastShow' = [status |-> IF w.threw THEN "threw" ELSE "returned",
                             card |-> NextId, via |-> "Drupal"]
             /\ containers' = ensureContainer(containers)
     ELSE UNCHANGED <<cards, children, timers, events, logs, lastShow, containers>>
  /\ UNCHANGED <<storageOk, engine, readyState, domListener, onceDone,
                 adapterLog, blocks, modules>>

\* show() with no argument: the defaults literal reads options.variant
\* (line 200) of undefined, a TypeError, before the container or any element
\* is created.
showNoArgument(w) == [w EXCEPT !.threw = TRUE]

\* NotificationCard.show()
ShowNoArgument ==
  /\ engine
  /\ LET w == showNoArgument(World)
     IN /\ Commit(w)
        /\ lastShow' = [status |-> IF w.threw THEN "threw" ELSE "returned",
                        card |-> 0, via |-> "NotificationCard"]
  /\ UNCHANGED <<containers, storageOk, engine, readyState, domListener,
                 onceDone, adapterLog, blocks, modules>>

\* Drupal.notificationCard.show(): passes its undefined argument on.
DrupalShowNoArgument ==
  /\ IF engine
     THEN LET w == showNoArgument(World)
          IN /\ Commit(w)
             /\ lastShow' = [status |-> IF w.threw THEN "threw" ELSE "returned",
                             card |-> 0, via |-> "Drupal"]
     ELSE UNCHANGED <<cards, children, timers, events, logs, lastShow>>
  /\ UNCHANGED <<containers, storageOk, engine, readyState, domListener,
                 onceDone, adapterLog, blocks, modules>>

\* Drupal.notificationCard.init(element)
DrupalInit(c) ==
  /\ Exists(c)
  /\ IF engine
     THEN Commit(initOnce(World, c))
     ELSE UNCHANGED <<cards, children, timers, events, logs>>
  /\ UNCHANGED <<containers, storageOk, engine, readyState, domListener,
                 onceDone, adapterLog, lastShow, blocks, modules>>

(* ------------------- adapter: status-message conversion ----------------- *)

\* The variant of a block (shoelace-init.js 71-74): three tests in a row, each
\* overwriting the result of the ones before it.
MessageVariant(block) ==
  LET v1 == IF "status" \in block.types THEN "success" ELSE "info"
      v2 == IF "warning" \in block.types THEN "warning" ELSE v1
  IN IF "error" \in block.types THEN "danger" ELSE v2

\* querySelector('.messages__title')?.textContent || 'Notification'
MessageTitle(block) ==
  LET text == IF block.hasTitle THEN block.title ELSE Undefined
  IN IF text = Undefined \/ text = <<>> THEN <<"Notification">> ELSE text

\* The config of a block with the duration given to every variant.
MessageConfigAlwaysTimed(block) ==
  [variant |-> MessageVariant(block),
   title |-> MessageTitle(block),
   message |-> IF block.hasContent THEN block.contentHTML ELSE block.blockHTML,
   dismissible |-> TRUE,
   duration |-> MessageDuration]

\* The config convertDrupalMessages passes to show for a block.
MessageConfig(block) ==
  [variant |-> MessageVariant(block),
   title |-> MessageTitle(block),
   message |-> IF block.hasContent THEN block.contentHTML ELSE block.blockHTML,
   dismissible |-> TRUE,
   duration |-> IF MessageVariant(block) = "success" THEN MessageDuration ELSE 0]

FreeIn(w) == {c \in Ids : w.cards[c].origin = "none"}
NextIn(w) == CHOOSE c \in FreeIn(w) : \A d \in FreeIn(w) : c <= d

\* The forEach of convertDrupalMessages.attach over the blocks once() returned.
\* st: the world, the blocks, the latest show call and the container count.
RECURSIVE convertEach(_, _)
convertEach(st, list) ==
  IF list = <<>> \/ st.w.threw THEN st
  ELSE LET b == Head(list)
           c == NextIn(st.w)
           st1 == IF engine
                  THEN LET w1 == showBody(st.w, c, MessageConfig(st.blocks[b]))
                       IN [w |-> w1,
                           blocks |-> [st.blocks EXCEPT ![b].shown = Append(@, c)],
                           last |-> [status |-> IF w1.threw THEN "threw"
                                                ELSE "returned",
                                     card |-> c, via |-> "NotificationCard"],
                           cont |-> ensureContainer(st.cont)]
                  ELSE st
       IN IF st1.w.threw THEN st1
          ELSE convertEach([st1 EXCEPT !.blocks[b].display = "none"], Tail(list))

BlockSeq(S) ==
  LET RECURSIVE build(_, _)
      build(i, acc) == IF i > Cardinality(BlockIds) THEN acc
                       ELSE build(i + 1, IF i \in S THEN Append(acc, i) ELSE acc)
  IN build(1, <<>>)

\* once('convert-messages', '.messages', context): the blocks of the context
\* not yet marked, in document order.
onceFreshBlocks(scope) ==
  BlockSeq({b \in scope : blocks[b].present /\ ~blocks[b].once})

\* Drupal.behaviors.convertDrupalMessages.attach(context)
ConvertMessages(scope) ==
  /\ scope # {}
  /\ LET fresh == onceFreshBlocks(scope)
         marked == [b \in BlockIds |->
                      IF b \in SeqToSet(fresh)
                      THEN [blocks[b] EXCEPT !.once = TRUE] ELSE blocks[b]]
         st == convertEach([w |-> World, blocks |-> marked, last |-> lastShow,
                            cont |-> containers], fresh)
     IN /\ Cardinality(FreeIds) >= Len(fresh)
        /\ Commit(st.w)
        /\ blocks' = st.blocks
        /\ lastShow' = st.last
        /\ containers' = st.cont
  /\ UNCHANGED <<storageOk, engine, readyState, domListener, onceDone,
                 adapterLog, modules>>

\* The host renders a status-message block into the page.
InsertBlock(shape) ==
  /\ \E b \in BlockIds :
        /\ ~blocks[b].present
        /\ \A d \in BlockIds : d < b => blocks[d].present
        /\ blocks' = [blocks EXCEPT ![b] = shape]
  /\ UNCHANGED <<cards, children, containers, timers, events, logs, storageOk,
                 engine, readyState, domListener, onceDone, adapterLog,
                 lastShow, modules>>

(* ------------------------------ the user -------------------------------- *)

DismissEvents(evs) == SelectSeq(evs, LAMBDA e : e.type = "notificationDismiss")
RemovedEvents(evs) == SelectSeq(evs, LAMBDA e : e.type = "notificationRemoved")

CanTrigger(c) ==
  /\ Attached(cards, c)
  /\ Len(DismissEvents(events[c])) < MaxDismiss

\* A click on the dismiss control: every click listener runs.
ClickDismiss(c) ==
  /\ CanTrigger(c)
  /\ cards[c].clickListeners > 0
  /\ Commit(dismissTimes([World EXCEPT !.cards[c].userTriggers = @ + 1], c,
                          cards[c].clickListeners))
  /\ UNCHANGED <<containers, storageOk, engine, readyState, domListener,
                 onceDone, adapterLog, lastShow, blocks, modules>>

\* Escape pressed on the card, with keydown listeners that do not test the
\* dismiss control.
EscapeKeyNoControlTest(c) ==
  /\ CanTrigger(c)
  /\ cards[c].keyListeners > 0
  /\ Commit(dismissTimes([World EXCEPT !.cards[c].userTriggers = @ + 1,
                                       !.cards[c].escapePressed = TRUE], c,
                          cards[c].keyListeners))
  /\ UNCHANGED <<containers, storageOk, engine, readyState, domListener,
                 onceDone, adapterLog, lastShow, blocks, modules>>

\* Escape pressed on the card: every keydown listener runs, and dismisses when
\* the card had a dismiss control at wiring time.  escapePressed: an Escape
\* keydown has reached the card's listeners.
EscapeKey(c) ==
  /\ CanTrigger(c)
  /\ cards[c].keyListeners > 0
  /\ IF cards[c].hasDismiss
     THEN Commit(dismissTimes([World EXCEPT !.cards[c].userTriggers = @ + 1,
                                            !.cards[c].escapePressed = TRUE], c,
                              cards[c].keyListeners))
     ELSE Commit([World EXCEPT !.cards[c].escapePressed = TRUE])
  /\ UNCHANGED <<containers, storageOk, engine, readyState, domListener,
                 onceDone, adapterLog, lastShow, blocks, modules>>

\* Another key pressed on the card: the keydown listeners run and do nothing.
OtherKey(c) ==
  /\ CanTrigger(c)
  /\ cards[c].keyListeners > 0
  /\ Commit(World)
  /\ UNCHANGED <<containers, storageOk, engine, readyState, domListener,
                 onceDone, adapterLog, lastShow, blocks, modules>>

(* ------------------------------ timers ---------------------------------- *)

Lefts == {timers[i].left : i \in 1..Len(timers)}
MinLeft == CHOOSE d \in Lefts : \A e \in Lefts : d <= e

\* The next callback to run: earliest due time, registration order for ties.
NextTimer == CHOOSE i \in 1..Len(timers) :
               /\ timers[i].left = MinLeft
               /\ \A j \in 1..(i - 1) : timers[j].left # MinLeft

RemoveAt(s, i) == SubSeq(s, 1, i - 1) \o SubSeq(s, i + 1, Len(s))

runCallback(w, t) ==
  CASE t.kind = "animate" -> animateCallback(w, t.card)
    [] t.kind = "remove" -> removeCallback(w, t.card)
    [] OTHER -> dismissCard(w, t.card)

\* A due timer's callback runs.
FireTimer ==
  /\ timers # <<>>
  /\ MinLeft = 0
  /\ LET t == timers[NextTimer]
     IN Commit(runCallback([World EXCEPT !.timers = RemoveAt(timers, NextTimer)], t))
  /\ UNCHANGED <<containers, storageOk, engine, readyState, domListener,
                 onceDone, adapterLog, lastShow, blocks, modules>>

Min(a, b) == IF a <= b THEN a ELSE b

\* Time passes until the next timer is due.  exitClock measures the time since
\* a card's first notificationDismiss, up to the exit delay.
Advance ==
  /\ timers # <<>>
  /\ MinLeft > 0
  /\ timers' = [i \in 1..Len(timers) |->
                  [timers[i] EXCEPT !.left = @ - MinLeft]]
  /\ cards' = [c \in Ids |->
                 IF events[c] = <<>> THEN cards[c]
                 ELSE [cards[c] EXCEPT !.exitClock = Min(@ + MinLeft, ExitDelay)]]
  /\ UNCHANGED <<children, containers, events, logs, storageOk,
                 engine, readyState, domListener, onceDone, adapterLog, lastShow, blocks, modules>>

DocumentSet == {c \in Ids : Attached(cards, c)}

\* The contexts attach is called with: the document, or the subtree of one
\* inserted element.
Contexts == {DocumentSet} \cup {{c} : c \in DocumentSet}

Next ==
  \/ StorageFails
  \/ \E shape \in MarkupShapes : InsertMarkup(shape)
  \/ LoadEngine
  \/ DOMContentLoaded
  \/ \E c \in Ids : InitElement(c)
  \/ InitAll
  \/ \E options \in ShowOptions : Show(options)
  \/ \E scope \in Contexts : Attach(scope)
  \/ \E options \in ShowOptions : DrupalShow(options)
  \/ \E c \in Ids : DrupalInit(c)
  \/ \E c \in Ids : ClickDismiss(c)
  \/ \E c \in Ids : EscapeKey(c)
  \/ \E c \in Ids : OtherKey(c)
  \/ FireTimer
  \/ Advance

Spec == Init /\ [][Next]_vars

(* ------------------------- page-level specification --------------------- *)
\* Several elements on one page while it loads and content is inserted: the
\* entry points and the adapter, in the instants before any timer is due.

PageOptions == {[variant |-> "success"]}
PageShapes == {Shape({"warning"}, TRUE, TRUE, "unset")}

InitPage == InitWith(1..MaxCards)

NextPage ==
  \/ StorageFails
  \/ \E shape \in PageShapes : InsertMarkup(shape)
  \/ LoadEngine
  \/ DOMContentLoaded
  \/ \E c \in Ids : InitElement(c)
  \/ InitAll
  \/ \E options \in PageOptions : Show(options)
  \/ \E scope \in Contexts : Attach(scope)

SpecPage == InitPage /\ [][NextPage]_vars

(* ----------------------- lifecycle specification ------------------------ *)
\* Several elements over their whole life: mounted from the page's markup
\* when the engine loads or created by show, dismissed by a click, removed by
\* the exit timer.

LifeOptions == {[variant |-> "info"]}
LifeShapes == {Shape({"danger"}, TRUE, TRUE, "unset")}

InitLife ==
  /\ cards = [c \in 1..MaxCards |-> NoCard]
  /\ children = <<>>
  /\ containers = 0
  /\ timers = <<>>
  /\ events = [c \in 1..MaxCards |-> <<>>]
  /\ logs = <<>>
  /\ storageOk = TRUE
  /\ engine = FALSE
  /\ readyState = "complete"
  /\ domListener = FALSE
  /\ onceDone = {}
  /\ adapterLog = <<>>
  /\ blocks = [b \in 1..MaxBlocks |-> NoBlock]
  /\ modules = NoModules
  /\ lastShow = NoShow

\* The page's own markup is parsed before the engine's script runs.
NextLife ==
  \/ \E shape \in LifeShapes : ~engine /\ InsertMarkup(shape)
  \/ LoadEngine
  \/ \E options \in LifeOptions : Show(options)
  \/ \E c \in Ids : ClickDismiss(c)
  \/ FireTimer
  \/ Advance

SpecLife == InitLife /\ [][NextLife]_vars

(* ----------------------- messages specification ------------------------- *)
\* The host's status messages and their conversion into notifications.

ListHTML == <<"<", "em", ">", "done", "</", "em", ">">>
WholeHTML == <<"<", "h2", ">", "Status", "</", "h2", ">", "done">>

BlockShape(types, t, title, ct) ==
  [NoBlock EXCEPT !.present = TRUE, !.types = types, !.hasTitle = t,
                  !.title = title, !.hasContent = ct,
                  !.contentHTML = IF ct THEN ListHTML ELSE <<>>,
                  !.blockHTML = WholeHTML]

BlockShapes ==
  {BlockShape({"status"}, TRUE, <<"Saved">>, TRUE),
   BlockShape({"warning"}, FALSE, <<>>, TRUE),
   BlockShape({"error"}, TRUE, <<>>, FALSE),
   BlockShape({}, FALSE, <<>>, FALSE),
   BlockShape({"status", "error"}, TRUE, <<"Saved">>, TRUE)}

PresentBlocks == {b \in BlockIds : blocks[b].present}

\* The contexts the behaviour is attached with: the document, or one block.
BlockContexts == {PresentBlocks} \cup {{b} : b \in PresentBlocks}

InitMessages == InitWith(1..MaxCards)

NextMessages ==
  \/ StorageFails
  \/ LoadEngine
  \/ \E shape \in BlockShapes : InsertBlock(shape)
  \/ \E scope \in BlockContexts : ConvertMessages(scope)

SpecMessages == InitMessages /\ [][NextMessages]_vars

(* ------------------------ variant specification ------------------------ *)
\* getVariant as a function of the element's classes: one element of the page
\* markup carrying any set of the class names below is mounted, and the mount
\* logs the variant getVariant derived.

VariantClassNames ==
  {"info", "success", "warning", "danger", "primary", "successful",
   "non-warning"}

InitVariant ==
  /\ \E cl \in SUBSET VariantClassNames :
        cards = [c \in OneCard |-> Shape(cl, TRUE, TRUE, "unset")]
  /\ children = <<>>
  /\ containers = 0
  /\ timers = <<>>
  /\ events = [c \in OneCard |-> <<>>]
  /\ logs = <<>>
  /\ storageOk = TRUE
  /\ engine = TRUE
  /\ readyState = "complete"
  /\ domListener = FALSE
  /\ onceDone = {}
  /\ adapterLog = <<>>
  /\ blocks = [b \in 1..MaxBlocks |-> NoBlock]
  /\ modules = NoModules
  /\ lastShow = NoShow

NextVariant == \E c \in Ids : InitElement(c)

SpecVariant == InitVariant /\ [][NextVariant]_vars

(* -------------------------- log specification --------------------------- *)
\* The persisted log over page loads: localStorage already holds the entries
\* of earlier visits when the page's elements are mounted.

\* The log earlier visits left: n entries, numbered in the order appended.
Prefill(n) ==
  [i \in 1..n |-> [variant |-> "info", title |-> <<"visit", ToString(i)>>]]

InitLog ==
  /\ cards = [c \in 1..MaxCards |-> NoCard]
  /\ children = <<>>
  /\ containers = 0
  /\ timers = <<>>
  /\ events = [c \in 1..MaxCards |-> <<>>]
  /\ logs \in {Prefill(0), Prefill(LogCap - 1), Prefill(LogCap)}
  /\ storageOk = TRUE
  /\ engine = FALSE
  /\ readyState = "complete"
  /\ domListener = FALSE
  /\ onceDone = {}
  /\ adapterLog = <<>>
  /\ blocks = [b \in 1..MaxBlocks |-> NoBlock]
  /\ modules = NoModules
  /\ lastShow = NoShow

NextLog ==
  \/ StorageFails
  \/ \E shape \in PageShapes : ~engine /\ InsertMarkup(shape)
  \/ LoadEngine
  \/ \E c \in Ids : InitElement(c)
  \/ \E options \in PageOptions : Show(options)

SpecLog == InitLog /\ [][NextLog]_vars

(* ------------------------ liveness specification ------------------------ *)
\* One element from its creation to its removal, with the browser running
\* every timer callback that is due and time passing while timers are pending.

LiveOptions ==
  {[variant |-> "info", duration |-> 3000],
   [variant |-> "success"],
   [variant |-> "warning", dismissible |-> FALSE]}

LiveShapes ==
  {Shape({"success"}, TRUE, TRUE, "unset"),
   Shape({"success"}, FALSE, TRUE, "false"),
   Shape({"danger"}, TRUE, FALSE, "unset")}

InitLive ==
  /\ cards = [c \in OneCard |-> NoCard]
  /\ children = <<>>
  /\ containers = 0
  /\ timers = <<>>
  /\ events = [c \in OneCard |-> <<>>]
  /\ logs = <<>>
  /\ storageOk = TRUE
  /\ engine = FALSE
  /\ readyState = "complete"
  /\ domListener = FALSE
  /\ onceDone = {}
  /\ adapterLog = <<>>
  /\ blocks = [b \in 1..MaxBlocks |-> NoBlock]
  /\ modules = NoModules
  /\ lastShow = NoShow

NextLive ==
  \/ StorageFails
  \/ \E shape \in LiveShapes : ~engine /\ InsertMarkup(shape)
  \/ LoadEngine
  \/ \E options \in LiveOptions : Show(options)
  \/ \E c \in Ids : ClickDismiss(c)
  \/ FireTimer
  \/ Advance

SpecLive ==
  InitLive /\ [][NextLive]_vars /\ WF_vars(FireTimer) /\ WF_vars(Advance)

(* ---------------------- persistent specification ------------------------ *)
\* One notification created by show, without a dismiss control and without a
\* duration or with a dismiss control, under every user event and timer and a
\* further initialization pass.

PersistentOptions ==
  {[variant |-> "warning", dismissible |-> FALSE],
   [variant |-> "danger", dismissible |-> FALSE, duration |-> 0],
   [variant |-> "info", dismissible |-> FALSE],
   [variant |-> "info"]}

NextPersistent ==
  \/ StorageFails
  \/ LoadEngine
  \/ \E options \in PersistentOptions : Show(options)
  \/ InitAll
  \/ \E c \in Ids : ClickDismiss(c)
  \/ \E c \in Ids : EscapeKey(c)
  \/ FireTimer
  \/ Advance

SpecPersistent == InitLive /\ [][NextPersistent]_vars

(* ----------------------- defaults specification ------------------------- *)
\* One call of show with few or no fields given, or with no argument at all.

DefaultsOptions ==
  {Empty,
   [variant |-> "info"],
   [variant |-> "success"],
   [variant |-> "warning"],
   [variant |-> "danger"],
   [variant |-> "primary"],
   [variant |-> "constructor"],
   [icon |-> "bell"],
   [variant |-> "danger", icon |-> "bell"]}

NextDefaults ==
  \/ StorageFails
  \/ LoadEngine
  \/ \E options \in DefaultsOptions : Show(options)
  \/ ShowNoArgument
  \/ DrupalShowNoArgument
  \/ FireTimer
  \/ Advance

SpecDefaults == InitLive /\ [][NextDefaults]_vars

(* ----------------------- standalone native variant --------------------- *)
\* The second NotificationCard implementation: no events, no log, no
\* init in its public API; the marker is data-initialized, held in the field
\* initialized.

NativeExitTransition == "all 0.3s ease"
NativeEnterTransition == "all 0.4s ease"

\* The body of initializeCard after its marker test: marker, click listener,
\* success auto-dismiss (classList.contains), entrance animation, hover.
nativeWire(w, c) ==
  LET w1 == [w EXCEPT !.cards[c].initialized = TRUE,
                      !.cards[c].clickListeners =
                         IF w.cards[c].hasDismiss THEN @ + 1 ELSE @]
      w2 == IF "success" \in w1.cards[c].classes
            THEN [w1 EXCEPT !.timers = Append(@, [kind |-> "auto", card |-> c,
                                                  left |-> AutoDismissDelay])]
            ELSE w1
  IN [w2 EXCEPT !.cards[c].opacity = "0",
                !.cards[c].transform = OffScreen,
                !.timers = Append(@, [kind |-> "animate", card |-> c,
                                      left |-> AnimateDelay]),
                !.cards[c].hoverListeners = @ + 1,
                !.cards[c].wired = @ + 1]

\* initializeCard without its test of data-initialized.
nativeInitializeCardNoTest(w, c) == nativeWire(w, c)

\* initializeCard(card) of the standalone variant.
nativeInitializeCard(w, c) ==
  IF w.cards[c].initialized THEN w ELSE nativeWire(w, c)

\* init(): cards.forEach(initializeCard)
RECURSIVE nativeForEach(_, _)
nativeForEach(w, list) ==
  IF list = <<>> THEN w
  ELSE nativeForEach(nativeInitializeCard(w, Head(list)), Tail(list))

nativeInit(w) == nativeForEach(w, DocumentCards(w))

\* dismissCard(card) of the standalone variant.
nativeDismissCard(w, c) ==
  [w EXCEPT !.cards[c].transition = NativeExitTransition,
            !.cards[c].opacity = "0",
            !.cards[c].transform = OffScreen,
            !.timers = Append(@, [kind |-> "remove", card |-> c,
                                  left |-> ExitDelay])]

RECURSIVE nativeDismissTimes(_, _, _)
nativeDismissTimes(w, c, n) ==
  IF n = 0 THEN w ELSE nativeDismissTimes(nativeDismissCard(w, c), c, n - 1)

\* The element show builds: the icon is always info-circle.
NativeNewCard(options) ==
  LET variant == IF Has(options, "variant") THEN options.variant ELSE "info"
      title == IF Has(options, "title") THEN options.title ELSE DefaultTitle
      message == IF Has(options, "message") THEN options.message ELSE <<>>
      dismissible == IF Has(options, "dismissible") THEN options.dismissible
                     ELSE TRUE
  IN [NoCard EXCEPT !.origin = "show",
                    !.classes = {variant},
                    !.hasTitle = TRUE,
                    !.title = TextOfMarkup(escapeHtml(title)),
                    !.titleElements = ElementsOfMarkup(escapeHtml(title)),
                    !.message = message,
                    !.messageElements = ElementsOfMarkup(message),
                    !.icon = "info-circle",
                    !.hasDismiss = dismissible,
                    !.options = options]

\* NotificationCard.show(options) of the standalone variant.
nativeShow(w, c, options) ==
  nativeInitializeCard([w EXCEPT !.cards[c] = [NativeNewCard(options) EXCEPT
                                                  !.parent = "container"],
                                 !.children = Append(@, c)], c)

nativeRunCallback(w, t) ==
  CASE t.kind = "animate" ->
         [w EXCEPT !.cards[t.card].transition = NativeEnterTransition,
                   !.cards[t.card].opacity = "1",
                   !.cards[t.card].transform = "translateX(0)"]
    [] t.kind = "remove" ->
         [w EXCEPT !.cards[t.card].parent = "none",
                   !.children = RemoveFromSeq(@, t.card)]
    [] OTHER -> nativeDismissCard(w, t.card)

\* The standalone script runs: init now or on DOMContentLoaded, then the
\* public API is set.
NativeLoad ==
  /\ ~engine
  /\ engine' = TRUE
  /\ IF readyState = "loading"
     THEN /\ domListener' = TRUE
          /\ UNCHANGED <<cards, children, timers, events, logs>>
     ELSE /\ Commit(nativeInit(World))
          /\ UNCHANGED domListener
  /\ UNCHANGED <<containers, storageOk, readyState, onceDone, adapterLog,
                 lastShow, blocks, modules>>

NativeDOMContentLoaded ==
  /\ readyState = "loading"
  /\ readyState' = "complete"
  /\ IF domListener
     THEN Commit(nativeInit(World))
     ELSE UNCHANGED <<cards, children, timers, events, logs>>
  /\ UNCHANGED <<containers, storageOk, engine, domListener, onceDone,
                 adapterLog, lastShow, blocks, modules>>

NativeShow(options) ==
  /\ engine
  /\ FreeIds # {}
  /\ Commit(nativeShow(World, NextId, options))
  /\ lastShow' = [status |-> "returned", card |-> NextId,
                  via |-> "NotificationCard"]
  /\ containers' = ensureContainer(containers)
  /\ UNCHANGED <<storageOk, engine, readyState, domListener, onceDone,
                 adapterLog, blocks, modules>>

\* A click on the dismiss control.
NativeClick(c) ==
  /\ Attached(cards, c)
  /\ cards[c].clickListeners > 0
  /\ cards[c].userTriggers < MaxDismiss
  /\ Commit(nativeDismissTimes([World EXCEPT !.cards[c].userTriggers = @ + 1],
                               c, cards[c].clickListeners))
  /\ UNCHANGED <<containers, storageOk, engine, readyState, domListener,
                 onceDone, adapterLog, lastShow, blocks, modules>>

NativeFireTimer ==
  /\ timers # <<>>
  /\ MinLeft = 0
  /\ LET t == timers[NextTimer]
     IN Commit(nativeRunCallback([World EXCEPT !.timers = RemoveAt(timers, NextTimer)], t))
  /\ UNCHANGED <<containers, storageOk, engine, readyState, domListener,
                 onceDone, adapterLog, lastShow, blocks, modules>>

NativeOptions ==
  {Empty,
   [variant |-> "success"],
   [variant |-> "warning", dismissible |-> FALSE]}

NativeShapes ==
  {Shape({"success"}, TRUE, TRUE, "unset"),
   Shape({"danger"}, FALSE, TRUE, "unset")}

NextNative ==
  \/ \E shape \in NativeShapes : InsertMarkup(shape)
  \/ NativeLoad
  \/ NativeDOMContentLoaded
  \/ \E options \in NativeOptions : NativeShow(options)
  \/ \E c \in Ids : NativeClick(c)
  \/ NativeFireTimer
  \/ Advance

SpecNative == Init /\ [][NextNative]_vars

(* ----------------------- Shoelace module loading ------------------------ *)
\* The module scripts that load Shoelace.  A module script runs when every
\* module of its import graph has been fetched and the module scripts before
\* it in the document have run; it evaluates the modules it imports in the
\* order of its import declarations, which are hoisted, and then runs its
\* body.

\* shoelace-init.js: import of the autoloader (line 4), import of setBasePath
\* from base-path.js (line 7), then the body: setBasePath(...) (line 8) and
\* the definition of the Drupal behaviors (lines 19-97).
InitJsScripts ==
  <<[imports |-> <<"autoloader", "base-path">>,
     body |-> <<"setBasePath", "behaviors">>]>>

\* html.html.twig: an inline module script that imports setBasePath and calls
\* it, followed by a module script whose source is the autoloader.
TwigScripts ==
  <<[imports |-> <<"base-path">>, body |-> <<"setBasePath">>],
    [imports |-> <<"autoloader">>, body |-> <<>>]>>

Arrangements == {"shoelace-init.js", "html.html.twig"}

ScriptsOf(arrangement) ==
  IF arrangement = "shoelace-init.js" THEN InitJsScripts
  ELSE IF arrangement = "html.html.twig" THEN TwigScripts
  ELSE <<>>

\* The steps one script runs, in order: its imports evaluated, then its body.
StepsOf(script) == script.imports \o script.body

\* The steps of all scripts, in document order, each with its script's index.
RECURSIVE PlanFrom(_, _)
PlanFrom(scripts, i) ==
  IF i > Len(scripts) THEN <<>>
  ELSE [k \in 1..Len(StepsOf(scripts[i])) |->
          [script |-> i, step |-> StepsOf(scripts[i])[k]]]
       \o PlanFrom(scripts, i + 1)

Plan(arrangement) == PlanFrom(ScriptsOf(arrangement), 1)

Imported(arrangement) ==
  UNION {SeqToSet(ScriptsOf(arrangement)[i].imports) :
           i \in 1..Len(ScriptsOf(arrangement))}

\* The browser has fetched one of the modules.
FetchModule(m) ==
  /\ m \in Imported(modules.arrangement) \ modules.fetched
  /\ modules' = [modules EXCEPT !.fetched = @ \cup {m}]
  /\ UNCHANGED <<cards, children, containers, timers, events, logs, storageOk,
                 engine, readyState, domListener, onceDone, adapterLog,
                 lastShow, blocks>>

\* The next step of the module scripts runs.
RunModuleStep ==
  /\ Len(modules.ran) < Len(Plan(modules.arrangement))
  /\ LET next == Plan(modules.arrangement)[Len(modules.ran) + 1]
         script == ScriptsOf(modules.arrangement)[next.script]
     IN /\ SeqToSet(script.imports) \subseteq modules.fetched
        /\ modules' = [modules EXCEPT !.ran = Append(@, next.step)]
  /\ UNCHANGED <<cards, children, containers, timers, events, logs, storageOk,
                 engine, readyState, domListener, onceDone, adapterLog,
                 lastShow, blocks>>

\* The adapter's behaviors exist once the body of shoelace-init.js has run.
AdapterDefined == \E i \in 1..Len(modules.ran) : modules.ran[i] = "behaviors"

InitModules ==
  /\ cards = [c \in OneCard |-> NoCard]
  /\ children = <<>>
  /\ containers = 0
  /\ timers = <<>>
  /\ events = [c \in OneCard |-> <<>>]
  /\ logs = <<>>
  /\ storageOk = TRUE
  /\ engine = FALSE
  /\ readyState = "loading"
  /\ domListener = FALSE
  /\ onceDone = {}
  /\ adapterLog = <<>>
  /\ blocks = [b \in 1..MaxBlocks |-> NoBlock]
  /\ lastShow = NoShow
  /\ \E a \in Arrangements :
        modules = [arrangement |-> a, fetched |-> {}, ran |-> <<>>]

NextModules ==
  \/ \E m \in {"autoloader", "base-path"} : FetchModule(m)
  \/ RunModuleStep
  \/ \E shape \in PageShapes : InsertMarkup(shape)
  \/ LoadEngine
  \/ DOMContentLoaded
  \/ \E scope \in Contexts : AdapterDefined /\ Attach(scope)

SpecModules == InitModules /\ [][NextModules]_vars

(* ------------------------------- claims --------------------------------- *)

ShowCards == {c \in Ids : cards[c].origin = "show"}

PendingFor(c, kinds) ==
  {i \in 1..Len(timers) : timers[i].card = c /\ timers[i].kind \in kinds}

\* C1: over every sequence of mount attempts through any entry point
\* (auto-init, init(element), init(), show, the adapter's attach), the
\* lifecycle wiring of initializeCard is performed at most once per element.
C1_WiredAtMostOnce == \A c \in Ids : cards[c].wired <= 1

\* C2: over any interleaving of dismiss triggers, at most one
\* notificationRemoved event is emitted per element.
C2_AtMostOneRemoved == \A c \in Ids : Len(RemovedEvents(events[c])) <= 1

\* C3: a dismiss trigger that reaches an element already dismissing or removed
\* is a no-op: no further notificationDismiss event, no further removal timer.
C3_DismissAfterDismissIsNoOp ==
  [][\A c \in Ids :
       DismissEvents(events[c]) # <<>> =>
         /\ DismissEvents(events'[c]) = DismissEvents(events[c])
         /\ \A i \in 1..Len(timers') :
              (timers'[i].card = c /\ timers'[i].kind = "remove") =>
                \E j \in 1..Len(timers) :
                   timers[j].card = c /\ timers[j].kind = "remove"]_vars

\* C4: show with duration 0 or omitted schedules no auto-dismiss timer for any
\* variant, success included.
C4_NoTimerWhenDurationZero ==
  \A c \in ShowCards :
     Config(cards[c].options).duration = 0 =>
        PendingFor(c, {"auto", "duration"}) = {}

\* C5: show with duration d > 0 and no user trigger: while the d ms have not
\* elapsed (the duration timer still has time left) the element is attached
\* and has received no dismiss.
C5_NoDismissBeforeDuration ==
  \A c \in ShowCards :
     (/\ cards[c].userTriggers = 0
      /\ \E i \in PendingFor(c, {"duration"}) : timers[i].left > 0)
     => (events[c] = <<>> /\ Attached(cards, c))

\* C6: init(element) called repeatedly on one element leaves exactly one set
\* of listeners: after a call the element has been wired once, a call on an
\* element already processed changes nothing, and a click on the dismiss
\* control of a processed element emits one notificationDismiss.
C6_InitTwiceOneListenerSet ==
  [][\A c \in Ids :
       /\ InitElement(c) => cards'[c].wired = 1
       /\ (cards[c].initialized /\ InitElement(c)) => UNCHANGED vars
       /\ (cards[c].initialized /\ ClickDismiss(c)) =>
             Len(DismissEvents(events'[c])) = Len(DismissEvents(events[c])) + 1]_vars

CallsIn(log, c) ==
  Cardinality({p \in (1..Len(log)) \X (1..Cardinality(Ids)) :
                 p[2] <= Len(log[p[1]].called) /\ log[p[1]].called[p[2]] = c})

\* C7: over successive attach calls the adapter calls the engine's init
\* exactly once for an element new to once() (when the engine is there to be
\* called: for the only new element of the call, and for every new element
\* when no init of the call throws), never again for an element an earlier
\* attach has processed, and never more than once per element.
C7_AttachOncePerElement ==
  [][\A c \in Ids :
       /\ c \in onceDone => CallsIn(adapterLog', c) = CallsIn(adapterLog, c)
       /\ (c \notin onceDone /\ c \in onceDone' /\ engine
           /\ (storageOk \/ onceDone' = onceDone \cup {c}))
          => CallsIn(adapterLog', c) = 1
       /\ CallsIn(adapterLog', c) <= 1]_vars

\* C7 witness: an attach passed element 1 to init; a later attach whose
\* context holds both element 1 and the new element 2 passed only element 2.
C7_Witness ==
  /\ Len(adapterLog) = 2
  /\ adapterLog[1] = [scope |-> {1}, called |-> <<1>>]
  /\ adapterLog[2] = [scope |-> {1, 2}, called |-> <<2>>]
  /\ onceDone = {1, 2}

\* C8: the derived variant of a show-created element is the variant of its
\* options when that is one of info/success/warning/danger, and info when the
\* variant was omitted.
C8_ShowVariant ==
  \A c \in ShowCards :
     getVariant(cards[c]) =
       IF Has(cards[c].options, "variant") THEN cards[c].options.variant ELSE "info"

\* C8 witness: show returned a danger element.
C8_Witness ==
  \E c \in ShowCards :
     /\ Has(cards[c].options, "variant")
     /\ cards[c].options.variant = "danger"
     /\ lastShow.status = "returned"
     /\ lastShow.card = c

\* C9: each call to show creates one element, appends it to the container and
\* returns it; the container exists from the first show on and there is never
\* more than one.
C9_ShowCreatesAppendsReturns ==
  /\ lastShow.status # "threw"
  /\ containers <= 1
  /\ ShowCards # {} => containers = 1
  /\ \A c \in ShowCards : Attached(cards, c) <=> c \in SeqToSet(children)

IsPrefixOrdered(evs) ==
  \A n \in 1..Len(evs) :
     Len(RemovedEvents(SubSeq(evs, 1, n))) <= Len(DismissEvents(SubSeq(evs, 1, n)))

\* C10: notificationDismiss carries the element's variant and title and is
\* emitted before the exit transition is applied; notificationRemoved carries
\* the variant and is emitted only once the element is detached and the 300 ms
\* exit delay has elapsed since the dismiss began; every notificationRemoved
\* is preceded by a notificationDismiss of the same element.
C10_EventOrdering ==
  \A c \in Ids :
     /\ IsPrefixOrdered(events[c])
     /\ events[c] # <<>> =>
          /\ events[c][1].type = "notificationDismiss"
          /\ events[c][1].transition # ExitTransition
     /\ \A i \in 1..Len(events[c]) :
          /\ events[c][i].variant = getVariant(cards[c])
          /\ events[c][i].type = "notificationDismiss" =>
                events[c][i].title = TitleText(cards[c])
          /\ events[c][i].type = "notificationRemoved" =>
                /\ ~events[c][i].attached
                /\ events[c][i].elapsed = ExitDelay

\* C10 witness: an element was dismissed while attached and then removed.
C10_Witness ==
  \E c \in Ids :
     /\ Len(events[c]) = 2
     /\ events[c][1].type = "notificationDismiss"
     /\ events[c][1].attached
     /\ events[c][2].type = "notificationRemoved"
     /\ ~Attached(cards, c)

\* C11: the removal that ends a dismiss detaches the element from its parent
\* (the container's child list for a show-created element, the page for a
\* markup element); the container, once created, is never removed and never
\* joined by a second one, and a show call made while it exists, empty or
\* not, appends the new element to it.
C11_DetachKeepsContainer ==
  [][/\ containers' >= containers
     /\ containers' <= 1
     /\ \A c \in Ids :
          /\ Len(RemovedEvents(events'[c])) > Len(RemovedEvents(events[c])) =>
                /\ ~Attached(cards', c)
                /\ c \notin SeqToSet(children')
          /\ (cards[c].origin = "none" /\ cards'[c].origin = "show"
              /\ containers = 1) =>
                /\ containers' = 1
                /\ children' = Append(children, c)]_vars

\* C11 witness: the only child of the container was dismissed and removed,
\* leaving the container empty; the show call that followed (its element's
\* entrance timer has its whole delay left) put its element in that container.
C11_Witness ==
  /\ containers = 1
  /\ children = <<2>>
  /\ cards[1].origin = "show"
  /\ ~Attached(cards, 1)
  /\ RemovedEvents(events[1]) # <<>>
  /\ lastShow.status = "returned"
  /\ lastShow.card = 2
  /\ \E i \in PendingFor(2, {"animate"}) : timers[i].left = AnimateDelay

\* C12: the lifecycle is one-directional: once an element has received a
\* dismiss, no step runs the mount wiring on it again (it never returns to
\* mounted), and once it has been removed no step gives it a parent again.
C12_OneDirectional ==
  [][\A c \in Ids :
       /\ DismissEvents(events[c]) # <<>> => cards'[c].wired = cards[c].wired
       /\ RemovedEvents(events[c]) # <<>> => ~Attached(cards', c)]_vars

\* The variant the element's class list names: the first of success, warning,
\* danger that is one of its notification-card--{variant} classes, else info.
VariantOfClassList(classes) ==
  IF "success" \in classes THEN "success"
  ELSE IF "warning" \in classes THEN "warning"
  ELSE IF "danger" \in classes THEN "danger"
  ELSE "info"

\* C13: getVariant returns the first of success, warning, danger that is among
\* the element's notification-card--{variant} classes, and info when the
\* element carries none of the three (only the info class, or a class of an
\* unknown variant, included): the variant every mount logged is that one.
C13_GetVariantByClass ==
  \A c \in Ids :
     \A i \in 1..Len(logs) :
        logs[i].variant = VariantOfClassList(cards[c].classes)

\* What show made of the fields its options left out: the documented defaults.
DefaultsTaken(c) ==
  LET o == cards[c].options
  IN /\ ~Has(o, "variant") => cards[c].classes = {"info"}
     /\ ~Has(o, "title") => cards[c].hasTitle /\ cards[c].title = <<"Notification">>
     /\ ~Has(o, "message") => cards[c].message = <<>>
     /\ ~Has(o, "dismissible") => cards[c].hasDismiss
     /\ ~Has(o, "duration") => PendingFor(c, {"duration"}) = {}
     /\ ~Has(o, "icon") =>
          cards[c].icon = getDefaultIcon(IF Has(o, "variant") THEN o.variant
                                         ELSE "info")

\* C14: for every partial config each absent field takes its documented
\* default, and show completes without raising an error and returns the
\* element it created.
C14_ShowDefaults ==
  /\ \A c \in ShowCards : DefaultsTaken(c)
  /\ lastShow.status = "none" \/ (lastShow.status = "returned" /\ lastShow.card \in ShowCards)

\* C15: wherever the bare namespace exists, a call through the Drupal
\* namespace does what the same call through the bare one does: show(config)
\* has the effects of NotificationCard.show(config) and returns the element it
\* returns (or raises as it raises); init(element) has the effects of
\* NotificationCard.init(element).
C15_NamespacesEquivalent ==
  [][/\ \A options \in ShowOptions :
          (engine /\ DrupalShow(options)) =>
             LET w == showBody(World, NextId, options)
             IN /\ Commit(w)
                /\ containers' = ensureContainer(containers)
                /\ lastShow'.status = IF w.threw THEN "threw" ELSE "returned"
                /\ lastShow'.card = NextId
                /\ UNCHANGED <<storageOk, engine, readyState, domListener,
                               onceDone, adapterLog, blocks, modules>>
     /\ \A c \in Ids : (engine /\ DrupalInit(c)) => InitElement(c)]_vars

\* C15 witness: Drupal.notificationCard.show returned the element it created,
\* mounted and in the container.
C15_Witness ==
  /\ lastShow.via = "Drupal"
  /\ lastShow.status = "returned"
  /\ lastShow.card \in ShowCards
  /\ children = <<lastShow.card>>
  /\ cards[lastShow.card].wired = 1

\* C16: over any sequence of attach calls on any scopes, a status-message
\* block causes at most one show call, and a block show was called for is
\* hidden.
C16_ConvertedOnceAndHidden ==
  \A b \in BlockIds :
     /\ Len(blocks[b].shown) <= 1
     /\ blocks[b].shown # <<>> => blocks[b].display = "none"

C18_TitleEscapedMessageRaw ==
  \A c \in ShowCards :
     LET o == cards[c].options
     IN /\ cards[c].titleElements = 0
        /\ Has(o, "title") => cards[c].title = o.title
        /\ Has(o, "message") => cards[c].message = o.message
        /\ (Has(o, "message") /\ o.message = BoldMessage) =>
              cards[c].messageElements = 1

\* C18 witness: show({title: '<script>x</script>', message: '<b>ok</b>'}) made
\* an element whose title reads <script>x</script> and holds no element, and
\* whose message holds the b element.
C18_Witness ==
  \E c \in ShowCards :
     /\ Has(cards[c].options, "title")
     /\ cards[c].options.title = ScriptTitle
     /\ cards[c].title = ScriptTitle
     /\ cards[c].titleElements = 0
     /\ cards[c].message = BoldMessage
     /\ cards[c].messageElements = 1
     /\ Attached(cards, c)

AutoTimers(tm, c) ==
  Cardinality({i \in 1..Len(tm) : tm[i].card = c /\ tm[i].kind = "auto"})

\* C19: a mount of an element schedules one 5000 ms auto-dismiss when the
\* element's derived variant is success and it does not carry
\* data-auto-dismiss="false", and none otherwise; and an element dismissed
\* without any user trigger and without a show duration timer is a success
\* element without the opt-out.
C19_AutoDismissOnlySuccess ==
  [][\A c \in Ids :
       /\ cards'[c].wired > cards[c].wired =>
            /\ AutoTimers(timers', c) - AutoTimers(timers, c) =
                  IF getVariant(cards'[c]) = "success"
                     /\ cards'[c].autoDismiss # "false"
                  THEN 1 ELSE 0
            /\ \A i \in 1..Len(timers') :
                  (timers'[i].card = c /\ timers'[i].kind = "auto"
                   /\ \A j \in 1..Len(timers) : timers[j] # timers'[i])
                  => timers'[i].left = 5000
       /\ (/\ events'[c] # <<>>
           /\ cards'[c].userTriggers = 0
           /\ ~(Has(cards'[c].options, "duration")
                /\ cards'[c].options.duration > 0))
          => (getVariant(cards'[c]) = "success" /\ cards'[c].autoDismiss # "false")]_vars

\* C19 witness: a success element with data-auto-dismiss="false" was mounted,
\* its entrance ran, and no timer is left: nothing will dismiss it.
C19_Witness ==
  \E c \in Ids :
     /\ cards[c].origin = "markup"
     /\ getVariant(cards[c]) = "success"
     /\ cards[c].autoDismiss = "false"
     /\ cards[c].wired = 1
     /\ cards[c].opacity = "1"
     /\ timers = <<>>
     /\ events[c] = <<>>

\* C20: an Escape key press starts the dismiss flow when the element has a
\* dismiss control and changes nothing of the element's life when it has
\* none; a press of another key never starts the dismiss flow.
C20_EscapeNeedsDismissControl ==
  [][\A c \in Ids :
       /\ (EscapeKey(c) /\ cards[c].hasDismiss) =>
             Len(DismissEvents(events'[c])) > Len(DismissEvents(events[c]))
       /\ (EscapeKey(c) /\ ~cards[c].hasDismiss) =>
             (events' = events /\ timers' = timers /\ children' = children)
       /\ OtherKey(c) =>
             (events' = events /\ timers' = timers /\ children' = children)]_vars

\* C20 witness: an element created by show with dismissible false has
\* received an Escape key press; it is still attached, has had no dismiss,
\* and no timer is pending.
C20_Witness ==
  \E c \in ShowCards :
     /\ ~cards[c].hasDismiss
     /\ cards[c].keyListeners > 0
     /\ cards[c].escapePressed
     /\ Attached(cards, c)
     /\ events[c] = <<>>
     /\ timers = <<>>

\* The elements a step mounts.
MountedBy(cs1, cs2) == {c \in Ids : cs2[c].wired > cs1[c].wired}

\* C21: the persisted log never holds more than 50 entries; a step that
\* mounts k elements while storage works appends k entries, one per mounted
\* element with its variant and title, after the entries already there, and
\* drops only the oldest entries beyond 50; no step reorders or rewrites the
\* entries kept.
C21_LogCappedMostRecent ==
  [][LET k == Cardinality(MountedBy(cards, cards'))
         kept == Len(logs') - k
     IN /\ Len(logs') <= 50
        /\ storageOk =>
             /\ Len(logs') = Min(Len(logs) + k, 50)
             /\ SubSeq(logs', 1, kept) = SubSeq(logs, Len(logs) - kept + 1, Len(logs))
             /\ \A i \in (kept + 1)..Len(logs') :
                  \E c \in MountedBy(cards, cards') :
                     logs'[i] = [variant |-> getVariant(cards'[c]),
                                 title |-> TitleText(cards'[c])]
        /\ ~storageOk => logs' = logs]_vars

\* C21 witness: the log held 50 entries of earlier visits; two mounts later it
\* holds 50 entries, the two oldest gone and the two new ones at the end.
C21_Witness ==
  /\ Len(logs) = 50
  /\ logs[1].title = <<"visit", "3">>
  /\ logs[48].title = <<"visit", "50">>
  /\ logs[49].title = <<"Hello">>
  /\ logs[50].title = <<"Notification">>

\* C22: a failure of the persisted log during a mount is not raised and does
\* not change the lifecycle: no show call ends by throwing, and after a pass
\* of init() every notification card of the document has been mounted.
C22_LogFailureTolerated ==
  [][/\ lastShow'.status # "threw"
     /\ InitAll => \A c \in DocumentSet : cards'[c].initialized /\ cards'[c].wired >= 1]_vars

TimersOf(tm, c, kind) ==
  Cardinality({i \in 1..Len(tm) : tm[i].card = c /\ tm[i].kind = kind})

\* What a first init(element) of an element sets up, whatever descendants the
\* element has: a click listener only with a dismiss control; the hover and
\* key listeners, the entrance animation, the success auto-dismiss and the
\* log entry in every case.
MountSetUp(c) ==
  /\ cards'[c].clickListeners =
        cards[c].clickListeners + (IF cards[c].hasDismiss THEN 1 ELSE 0)
  /\ cards'[c].hoverListeners = cards[c].hoverListeners + 1
  /\ cards'[c].keyListeners = cards[c].keyListeners + 1
  /\ TimersOf(timers', c, "animate") = TimersOf(timers, c, "animate") + 1
  /\ TimersOf(timers', c, "auto") = TimersOf(timers, c, "auto") +
        (IF getVariant(cards[c]) = "success" /\ cards[c].autoDismiss # "false"
         THEN 1 ELSE 0)
  /\ Len(logs') = Len(logs) + 1

\* C23: mounting an element without a dismiss control and/or without a title
\* node completes without error and sets up everything but the click-dismiss
\* it has no control for; a dismiss of an element without a title node
\* completes, its event carrying no title.
C23_MissingDescendantsTolerated ==
  [][\A c \in Ids :
       /\ (/\ InitElement(c)
           /\ ~cards[c].initialized
           /\ ~cards[c].hasDismiss \/ ~cards[c].hasTitle)
          => (~initOnce(World, c).threw /\ MountSetUp(c))
       /\ (~cards[c].hasTitle /\ Len(events'[c]) > Len(events[c])) =>
             events'[c][Len(events'[c])].title = Undefined]_vars

\* C24: the children of the notification container are exactly the elements
\* show created that have not been detached, in the order of the show calls
\* (elements are numbered in the order they are created).
C24_ChildrenInShowOrder ==
  children = SetToSeq({c \in ShowCards : Attached(cards, c)})

\* C24 witness: two elements were shown; the first is in its exit transition
\* and not yet detached, and the container holds both, the first one first.
C24_Witness ==
  /\ children = <<1, 2>>
  /\ {1, 2} \subseteq ShowCards
  /\ DismissEvents(events[1]) # <<>>
  /\ RemovedEvents(events[1]) = <<>>
  /\ events[2] = <<>>

\* C25: an element of the page markup is never wired more than once, by the
\* engine's auto-init and the adapter's attach in either order and however
\* many attach calls follow; it is wired exactly once as soon as either has
\* reached the engine's mount for it.
C25_MarkupWiredOnce ==
  \A c \in Ids :
     cards[c].origin = "markup" =>
        /\ cards[c].wired <= 1
        /\ cards[c].initialized <=> cards[c].wired = 1
        /\ CallsIn(adapterLog, c) >= 1 => cards[c].wired = 1

\* C25 witness: the engine loaded while the page was loading and auto-init
\* ran at DOMContentLoaded; the adapter's attach passed markup element 1 to
\* init; the element has been wired once and logged once.
C25_Witness ==
  /\ cards[1].origin = "markup"
  /\ domListener
  /\ readyState = "complete"
  /\ 1 \in onceDone
  /\ CallsIn(adapterLog, 1) = 1
  /\ cards[1].wired = 1
  /\ logs = <<[variant |-> "warning", title |-> <<"Hello">>]>>

Removed(c) == ~Attached(cards, c) /\ RemovedEvents(events[c]) # <<>>

\* C26: with due timer callbacks eventually run, every element that has
\* entered the dismiss flow is eventually detached with a notificationRemoved
\* event; so is every element show created with a duration above 0, and
\* every mounted success element without the opt-out attribute.
C26_EventuallyRemoved ==
  \A c \in OneCard :
     /\ (DismissEvents(events[c]) # <<>>) ~> Removed(c)
     /\ (/\ cards[c].origin = "show"
         /\ Has(cards[c].options, "duration")
         /\ cards[c].options.duration > 0) ~> Removed(c)
     /\ (/\ cards[c].wired >= 1
         /\ getVariant(cards[c]) = "success"
         /\ cards[c].autoDismiss # "false") ~> Removed(c)

\* C27: from the start of the dismiss flow until it is detached, an element
\* keeps the exit visual state: opacity 0 and translated out.
C27_ExitStateKept ==
  \A c \in Ids :
     (DismissEvents(events[c]) # <<>> /\ Attached(cards, c)) =>
        (cards[c].opacity = "0" /\ cards[c].transform = OffScreen)

\* C28: conversion of status messages never loses a message: a block is
\* hidden only if a notification element was created for it.
C28_HiddenOnlyIfConverted ==
  \A b \in BlockIds :
     (blocks[b].present /\ blocks[b].display = "none") => blocks[b].shown # <<>>

\* C29: every element marked as processed for the 'notification-card' key
\* has been mounted by the engine.
C29_MarkedImpliesMounted ==
  \A c \in onceDone : cards[c].wired >= 1

\* The elements show created with dismissible false, duration 0 and a variant
\* other than success.
Persistent ==
  {c \in ShowCards :
      LET config == Config(cards[c].options)
      IN /\ ~config.dismissible
         /\ config.duration = 0
         /\ config.variant \in {"info", "warning", "danger"}}

\* C30: an element created by show with dismissible false, duration 0 and a
\* variant other than success is never dismissed or removed: it stays
\* attached, no dismiss or removed event is ever sent for it, and no timer
\* that would dismiss or remove it is pending.
C30_PersistentNeverDismissed ==
  \A c \in Persistent :
     /\ Attached(cards, c)
     /\ events[c] = <<>>
     /\ cards[c].userTriggers = 0
     /\ \A i \in 1..Len(timers) :
           timers[i].card = c => timers[i].kind = "animate"

\* C30 witness: a danger element created with dismissible false and duration
\* 0 by a show call that returned went through a second initialization pass
\* and an Escape key press, every timer has run, and it is still attached and
\* visible.
C30_Witness ==
  \E c \in Persistent :
     /\ Config(cards[c].options).variant = "danger"
     /\ lastShow.status = "returned"
     /\ cards[c].wired = 2
     /\ cards[c].escapePressed
     /\ cards[c].opacity = "1"
     /\ timers = <<>>
     /\ children = <<c>>

\* The pending timers of one element, in scheduling order.
TimerSeqOf(tm, c) == SelectSeq(tm, LAMBDA t : t.card = c)

\* C31: a step that dismisses or removes one element (it sends that element's
\* notificationDismiss or notificationRemoved) leaves every other element as
\* it was: its fields (lifecycle state, marker, style), its events, its
\* pending timers and its place among the container's children; and the
\* container is unchanged but for the loss of the removed child.
C31_OthersUntouched ==
  [][\A c \in Ids :
       events'[c] # events[c] =>
          /\ \A d \in Ids \ {c} :
                /\ cards'[d] = cards[d]
                /\ events'[d] = events[d]
                /\ TimerSeqOf(timers', d) = TimerSeqOf(timers, d)
          /\ RemoveFromSeq(children', c) = RemoveFromSeq(children, c)
          /\ (Attached(cards', c) => children' = children)
          /\ containers' = containers]_vars

\* C31 witness: of two shown elements the first was dismissed by a click and
\* removed while the second, shown before the removal, is still a child, has
\* had no event and keeps its pending entrance timer.
C31_Witness ==
  /\ {1, 2} \subseteq ShowCards
  /\ cards[1].userTriggers = 1
  /\ Removed(1)
  /\ children = <<2>>
  /\ events[2] = <<>>
  /\ cards[2].opacity = "0"
  /\ TimerSeqOf(timers, 2) # <<>>

\* C32: show called with no argument behaves like show with an empty config:
\* it returns a new attached element whose variant is info (when the log can
\* be written), and a call that does not return leaves nothing behind.
C32_NoArgumentLikeEmpty ==
  [][(ShowNoArgument \/ (engine /\ DrupalShowNoArgument)) =>
       /\ storageOk =>
             /\ lastShow'.status = "returned"
             /\ lastShow'.card \in Ids
             /\ ~Exists(lastShow'.card)
             /\ cards'[lastShow'.card].origin = "show"
             /\ getVariant(cards'[lastShow'.card]) = "info"
             /\ Attached(cards', lastShow'.card)
       /\ lastShow'.status = "threw" =>
             (cards' = cards /\ children' = children /\ containers' = containers)]_vars

RanAt(step) == {i \in 1..Len(modules.ran) : modules.ran[i] = step}

\* C34: the Shoelace base path is set before the autoloader module is
\* evaluated: whenever the autoloader has been evaluated, the call of
\* setBasePath ran earlier.
C34_BasePathBeforeAutoloader ==
  \A i \in RanAt("autoloader") : \E j \in RanAt("setBasePath") : j < i

\* The icon the documented mapping gives a variant.
DocumentedIcon(variant) ==
  CASE variant = "success" -> "check-circle"
    [] variant = "warning" -> "exclamation-triangle"
    [] variant = "danger" -> "exclamation-octagon"
    [] OTHER -> "info-circle"

\* C35: the icon of an element show created is the caller's icon when one is
\* given, otherwise the default of its variant, and info-circle when the
\* variant is omitted or is not one of the four.
C35_IconDefault ==
  \A c \in ShowCards :
     LET options == cards[c].options
     IN cards[c].icon =
          IF Has(options, "icon") THEN options.icon
          ELSE IF Has(options, "variant") THEN DocumentedIcon(options.variant)
          ELSE "info-circle"

====
